---------------------------- MODULE Spec2Model ----------------------------
(***************************************************************************)
(* Threat Intelligence Platform: the ETL pipeline (workers/etl) and the    *)
(* admin trigger of the API (apps/api).                                    *)
(*                                                                         *)
(* State: the relational tables the pipeline writes (as bags of rows, so   *)
(* that a duplicate row is a state the model can be in), the Celery        *)
(* executions in progress, the Redis cool-down markers and one Transport   *)
(* call.  One action per step of a task; the database transaction of a     *)
(* task (all its statements up to the commit, or the rollback when a       *)
(* statement raises) is one step.                                          *)
(***************************************************************************)
EXTENDS Integers, Sequences, FiniteSets, Bags, TLC

(***************************************************************************)
(* Bounds of the model.                                                    *)
(***************************************************************************)
MaxCveId == 3
MaxBatch == 2
MaxCsvRows == 3
MaxRuns == 1
MaxOsvId == 2
MaxEcosystems == 2
MaxVulns == 1
MaxEntries == 1
MaxNodes == 1
MaxAdvRows == 3
MaxQueue == 2
TickSeconds == 40
MaxHttpRetries == 3
MaxTotal == 3
MaxTime == 9
WorkerSlots == 2
ApiProcesses == 2
MaxTxId == 2

(***************************************************************************)
(* Program constants.                                                      *)
(***************************************************************************)
max_retries == 3

NoId == 0
NULL == "NULL"
EMPTY == ""
Never == -1
Lookback == 7

VARIABLES
  cves,          \* table cves (tasks.py): bag of [id, severity, baseScore, isKev]
  osv_vulns,     \* table osv_vulns (tasks.py): bag of [id, ecosystem, severity]
  advisories,    \* table advisories (tasks.py): bag of [title, summary,
                 \* summaryTech, source, sourceUrl]; the id is a fresh uuid
  data_sources,  \* table data_sources: set of [id, kind, enabled, url, lastStatus,
                 \* lastRunAt]; lastRunAt is Never while the column is NULL
  Cve,           \* table "Cve" (db.py): bag of [id, cvssScore, cvssSeverity, isKev]
  OsvVuln,       \* table "OsvVuln" (db.py): bag of [id, ecosystem, cvssSeverity]
  Advisory,      \* table "Advisory" (db.py): bag of [id, source, title, link,
                 \* summary, summaryTech]
  DataSource,    \* table "DataSource" (db.py): set of [kind, lastStatus]
  env,           \* environment of the worker: [GITHUB_TOKEN, CLAUDE_API_KEY],
                 \* TRUE when the variable is set
  deployed,      \* the entry points in use in this behaviour: the tasks whose
                 \* messages the broker delivers, the db.py helper a script
                 \* calls, the API, the transport
  runs,          \* bag of task executions in flight: [task, pc, retries, calls,
                 \* n, err, kev_cves, before, reqs, start_date, end_date,
                 \* total]; calls counts the update_data_source_status calls
                 \* of the execution, before is the set flagged when the KEV
                 \* transaction began, reqs counts its upstream requests,
                 \* start_date and end_date are the window of its NVD request
                 \* and total the totalResults of the answer
  ingested,      \* history: the identifiers committed so far, per table, and
                 \* kev, the snapshot of the last KEV transaction committed
                 \* statement by statement (KevTxCommit)
  redis,         \* rate_limit:<kind> keys: kind -> seconds to live (0: no key)
  elapsed,       \* history: kind -> seconds since the last accepted trigger
  queue,         \* task names sent to the broker and not yet consumed
  response,      \* the last answer of POST /admin/run/{source_kind}
  http,          \* one Http._call in progress
  now,           \* the wall clock (datetime.now(), NOW()), in days
  admitted,      \* kinds of the triggers that passed the cool-down test of
                 \* main.py 153 in an API process and have not yet set the key
  clock          \* minutes since the last hour that is a multiple of eight

tables == <<cves, osv_vulns, advisories>>
dbTables == <<Cve, OsvVuln, Advisory, DataSource>>
api == <<redis, elapsed, queue, response, admitted, clock>>
vars == <<cves, osv_vulns, advisories, data_sources, Cve, OsvVuln, Advisory,
          DataSource, env, deployed, runs, ingested, redis, elapsed, queue, response,
          http, now, admitted, clock>>

(***************************************************************************)
(* Raw NVD items.  The metrics object of an item either lacks both keys,   *)
(* or holds cvssMetricV31 / cvssMetricV3 with one entry, or holds          *)
(* cvssMetricV31 with an empty list.                                       *)
(***************************************************************************)
CveIds == 1..MaxCveId
MetricShapes == {"none", "v31", "v3", "v31_empty"}
RawCves == [id : CveIds \cup {NoId}, metrics : MetricShapes]

V31Data == [baseScore |-> "9.8", baseSeverity |-> "CRITICAL"]
V3Data == [baseScore |-> "5.0", baseSeverity |-> "MEDIUM"]
NoCvss == [baseScore |-> NULL, baseSeverity |-> NULL]

RECURSIVE SeqsUpTo(_, _)
SeqsUpTo(S, n) ==
  IF n = 0 THEN {<<>>}
  ELSE LET shorter == SeqsUpTo(S, n - 1)
       IN shorter \cup {Append(s, x) : s \in {t \in shorter : Len(t) = n - 1}, x \in S}

NvdBatches == SeqsUpTo(RawCves, MaxBatch)

(***************************************************************************)
(* tasks.py 192-202: metrics['cvssMetricV31'][0] raises IndexError on an   *)
(* empty list; with neither key the three values stay None.                *)
(***************************************************************************)
CvssRaises(c) == c.metrics = "v31_empty"

ExtractCvss_OnlyV3(c) == IF c.metrics = "v3" THEN V3Data ELSE NoCvss

ExtractCvss(c) ==
  IF c.metrics = "v31" THEN V31Data
  ELSE IF c.metrics = "v3" THEN V3Data
  ELSE NoCvss

(***************************************************************************)
(* tasks.py 229-244: INSERT INTO cves ... ON CONFLICT (id) DO UPDATE.      *)
(* The statement names no "isKev" column: a new row takes the column       *)
(* default (false) and an existing row keeps its flag.                     *)
(***************************************************************************)
RowsWithId(t, id) == {r \in BagToSet(t) : r.id = id}

UpsertCves_AlwaysInsert(t, id, cvss) ==
  t (+) SetToBag({[id |-> id, severity |-> cvss.baseSeverity,
                   baseScore |-> cvss.baseScore, isKev |-> FALSE]})

UpsertCves(t, id, cvss) ==
  IF RowsWithId(t, id) = {}
  THEN t (+) SetToBag({[id |-> id, severity |-> cvss.baseSeverity,
                        baseScore |-> cvss.baseScore, isKev |-> FALSE]})
  ELSE LET old == CHOOSE r \in RowsWithId(t, id) : TRUE
           new == [old EXCEPT !.severity = cvss.baseSeverity,
                              !.baseScore = cvss.baseScore]
       IN (t (-) SetToBag({old})) (+) SetToBag({new})

(***************************************************************************)
(* tasks.py 173-249: the loop over data['vulnerabilities'] inside one      *)
(* transaction.  An item without id is skipped; an exception leaves the    *)
(* loop, the connection is closed without commit and nothing is stored.    *)
(***************************************************************************)
RECURSIVE NvdLoop(_, _, _)
NvdLoop(t, items, n) ==
  IF items = <<>> THEN [raised |-> FALSE, table |-> t, n |-> n]
  ELSE LET c == Head(items)
       IN IF c.id = NoId THEN NvdLoop(t, Tail(items), n)
          ELSE IF CvssRaises(c) THEN [raised |-> TRUE, table |-> t, n |-> n]
          ELSE NvdLoop(UpsertCves(t, c.id, ExtractCvss(c)), Tail(items), n + 1)

(***************************************************************************)
(* tasks.py 459-466: the CSV rows of the KEV feed; a row with an empty     *)
(* cveID is dropped and the identifiers are collected in a set.            *)
(***************************************************************************)
KevCsvs == SeqsUpTo(CveIds \cup {NoId}, MaxCsvRows)

ParseKevCsv(rows) == {rows[i] : i \in 1..Len(rows)} \ {NoId}

(***************************************************************************)
(* tasks.py 472-483: UPDATE cves SET "isKev" = false, then, when the set   *)
(* is not empty, UPDATE cves SET "isKev" = true WHERE id IN (...).         *)
(***************************************************************************)
ClearFlag(r) == [r EXCEPT !.isKev = FALSE]

KevReset_Skipped(t) == t

KevReset(t) == BagOfAll(ClearFlag, t)

KevMark(t, kev_cves) ==
  IF kev_cves = {} THEN t
  ELSE LET hit == {r \in BagToSet(t) : r.id \in kev_cves}
           rest == [r \in BagToSet(t) \ hit |-> t[r]]
           set == [r \in {[h EXCEPT !.isKev = TRUE] : h \in hit} |->
                     LET src == {h \in hit : [h EXCEPT !.isKev = TRUE] = r}
                     IN IF Cardinality(src) = 1
                        THEN t[CHOOSE h \in src : TRUE]
                        ELSE t[[r EXCEPT !.isKev = TRUE]] + t[[r EXCEPT !.isKev = FALSE]]]
       IN rest (+) set

HasRow(t, id, sev, score) ==
  \E r \in BagToSet(t) : r.id = id /\ r.severity = sev /\ r.baseScore = score

Flagged(t) == {r.id : r \in {x \in BagToSet(t) : x.isKev}}
Stored(t) == {r.id : r \in BagToSet(t)}
KevCount(t) == BagCardinality([r \in {x \in BagToSet(t) : x.isKev} |-> t[r]])

(***************************************************************************)
(* tasks.py 269-330: one query per ecosystem, at most 50 vulns of each     *)
(* answer, INSERT INTO "osv_vulns" ... ON CONFLICT (id) DO UPDATE.  The    *)
(* model queries the first MaxEcosystems ecosystems of the list.           *)
(***************************************************************************)
Min(a, b) == IF a <= b THEN a ELSE b

ecosystems == <<"npm", "PyPI", "Go", "Maven", "NuGet", "RubyGems">>
NEco == Min(MaxEcosystems, Len(ecosystems))
OsvCap == 50

OsvIds == 1..MaxOsvId
RawVulns == [id : OsvIds \cup {NoId}, severity : {"none", "score", "noscore"}]
OsvAnswers == [ok : {TRUE}, vulns : SeqsUpTo(RawVulns, MaxVulns)]
                 \cup {[ok |-> FALSE, vulns |-> <<>>]}
OsvResponses == [1..NEco -> OsvAnswers]

(* 303-306: severity_data[0].get('score', 'UNKNOWN'), None without severity *)
OsvSeverity(v) ==
  IF v.severity = "score" THEN "7.5"
  ELSE IF v.severity = "noscore" THEN "UNKNOWN"
  ELSE NULL

UpsertOsvVulns(t, id, ecosystem, severity) ==
  IF RowsWithId(t, id) = {}
  THEN t (+) SetToBag({[id |-> id, ecosystem |-> ecosystem, severity |-> severity]})
  ELSE LET old == CHOOSE r \in RowsWithId(t, id) : TRUE
           new == [old EXCEPT !.ecosystem = ecosystem, !.severity = severity]
       IN (t (-) SetToBag({old})) (+) SetToBag({new})

RECURSIVE OsvVulnLoop(_, _, _, _)
OsvVulnLoop(t, ecosystem, vulns, n) ==
  IF vulns = <<>> THEN [table |-> t, n |-> n]
  ELSE LET v == Head(vulns)
       IN IF v.id = NoId THEN OsvVulnLoop(t, ecosystem, Tail(vulns), n)
          ELSE OsvVulnLoop(UpsertOsvVulns(t, v.id, ecosystem, OsvSeverity(v)),
                           ecosystem, Tail(vulns), n + 1)

(* 275-333: raise_for_status of one ecosystem's answer leaves the whole loop *)
RECURSIVE OsvLoop(_, _, _, _)
OsvLoop(t, responses, i, n) ==
  IF i > NEco THEN [raised |-> FALSE, table |-> t, n |-> n]
  ELSE IF ~responses[i].ok THEN [raised |-> TRUE, table |-> t, n |-> n]
  ELSE LET vulns == responses[i].vulns
           r == OsvVulnLoop(t, ecosystems[i],
                            SubSeq(vulns, 1, Min(OsvCap, Len(vulns))), n)
       IN OsvLoop(r.table, responses, i + 1, r.n)

(***************************************************************************)
(* tasks.py 75-130: get_claude_summaries.  Without key or content, or when *)
(* the call raises, both summaries are the empty string.  ai is what the   *)
(* backend answers: "fail", or the summaries parsed from its text.         *)
(***************************************************************************)
AiOutcomes == {"fail", "1", "2"}
NoSummaries == [summary |-> EMPTY, summaryTech |-> EMPTY]

get_claude_summaries(content, ai) ==
  IF ~env.CLAUDE_API_KEY \/ content = EMPTY THEN NoSummaries
  ELSE IF ai = "fail" THEN NoSummaries
  ELSE [summary |-> "E" \o ai, summaryTech |-> "K" \o ai]

(***************************************************************************)
(* tasks.py 416-431 and 552-567: INSERT INTO advisories ... ON CONFLICT    *)
(* ("sourceUrl") DO UPDATE.  The arbiter is the unique index on sourceUrl, *)
(* in which a NULL conflicts with nothing; source is not in the SET list.  *)
(***************************************************************************)
RowsWithUrl(t, url) == {r \in BagToSet(t) : r.sourceUrl = url}

UpsertAdvisories_SkipsEmpty(t, title, sums, source, sourceUrl) ==
  IF sums = [summary |-> EMPTY, summaryTech |-> EMPTY] THEN t
  ELSE IF sourceUrl = NULL \/ RowsWithUrl(t, sourceUrl) = {}
  THEN t (+) SetToBag({[title |-> title, summary |-> sums.summary,
                        summaryTech |-> sums.summaryTech, source |-> source,
                        sourceUrl |-> sourceUrl]})
  ELSE LET old == CHOOSE r \in RowsWithUrl(t, sourceUrl) : TRUE
           new == [old EXCEPT !.title = title, !.summary = sums.summary,
                              !.summaryTech = sums.summaryTech]
       IN (t (-) SetToBag({old})) (+) SetToBag({new})

UpsertAdvisories(t, title, sums, source, sourceUrl) ==
  IF sourceUrl = NULL \/ RowsWithUrl(t, sourceUrl) = {}
  THEN t (+) SetToBag({[title |-> title, summary |-> sums.summary,
                        summaryTech |-> sums.summaryTech, source |-> source,
                        sourceUrl |-> sourceUrl]})
  ELSE LET old == CHOOSE r \in RowsWithUrl(t, sourceUrl) : TRUE
           new == [old EXCEPT !.title = title, !.summary = sums.summary,
                              !.summaryTech = sums.summaryTech]
       IN (t (-) SetToBag({old})) (+) SetToBag({new})

(***************************************************************************)
(* tasks.py 525-574: the loop over the enabled RSS sources.  A source      *)
(* without url is skipped, an exception of a feed is logged and the loop   *)
(* goes on; at most 20 entries of a feed are read.  link defaults to ''.   *)
(***************************************************************************)
Titles == {"T1", "T2"}
FeedLabels == <<"F1", "F2">>
RssCap == 20

RssEntries == [title : Titles, link : {EMPTY, "L1"}, content : {"c"}, ai : AiOutcomes]
                \cup [title : Titles, link : {EMPTY, "L1"}, content : {EMPTY},
                      ai : {"fail"}]
RssFeeds == [ok : {TRUE}, entries : SeqsUpTo(RssEntries, MaxEntries)]
              \cup {[ok |-> FALSE, entries |-> <<>>]}

RECURSIVE RssEntryLoop(_, _, _, _)
RssEntryLoop(t, label, entries, n) ==
  IF entries = <<>> THEN [table |-> t, n |-> n]
  ELSE LET entry == Head(entries)
           sums == get_claude_summaries(entry.content, entry.ai)
       IN RssEntryLoop(UpsertAdvisories(t, entry.title, sums, label, entry.link),
                       label, Tail(entries), n + 1)

RECURSIVE RssLoop(_, _, _, _)
RssLoop(t, rss_sources, feeds, n) ==
  IF rss_sources = <<>> THEN [table |-> t, n |-> n]
  ELSE LET src == Head(rss_sources)
       IN IF src.url = EMPTY \/ ~feeds[src.id].ok
          THEN RssLoop(t, Tail(rss_sources), feeds, n)
          ELSE LET entries == feeds[src.id].entries
                   r == RssEntryLoop(t, src.id,
                          SubSeq(entries, 1, Min(RssCap, Len(entries))), n)
               IN RssLoop(r.table, Tail(rss_sources), feeds, r.n)

(***************************************************************************)
(* tasks.py 399-432: the loop over the nodes of the GHSA answer.  A node   *)
(* that is null makes advisory.get raise; permalink may be None.           *)
(***************************************************************************)
NullNode == [shape |-> "null", summary |-> EMPTY, permalink |-> NULL,
             description |-> EMPTY, ai |-> "fail"]
GhsaNodes == [shape : {"node"}, summary : Titles, permalink : {NULL, "G1"},
              description : {"c"}, ai : AiOutcomes]
               \cup [shape : {"node"}, summary : Titles, permalink : {NULL, "G1"},
                     description : {EMPTY}, ai : {"fail"}]
               \cup {NullNode}

RECURSIVE GhsaLoop(_, _, _)
GhsaLoop(t, nodes, n) ==
  IF nodes = <<>> THEN [raised |-> FALSE, table |-> t, n |-> n]
  ELSE LET advisory == Head(nodes)
       IN IF advisory.shape = "null" THEN [raised |-> TRUE, table |-> t, n |-> n]
          ELSE GhsaLoop(UpsertAdvisories(t, advisory.summary,
                          get_claude_summaries(advisory.description, advisory.ai),
                          "GHSA", advisory.permalink),
                        Tail(nodes), n + 1)

(***************************************************************************)
(* tasks.py 58-73: UPDATE data_sources SET "lastStatus" = ... WHERE        *)
(* kind = ...; every row of that kind is updated, whether enabled or not,  *)
(* and "lastRunAt" = NOW() is set with it, whatever the status says.       *)
(***************************************************************************)
Status(outcome, n, text) == [outcome |-> outcome, n |-> n, text |-> text]

update_data_source_status_AllKinds(ds, source_kind, status) ==
  {[r EXCEPT !.lastStatus = status, !.lastRunAt = now] : r \in ds}

update_data_source_status_KeepsTime(ds, source_kind, status) ==
  {IF r.kind = source_kind THEN [r EXCEPT !.lastStatus = status] ELSE r : r \in ds}

update_data_source_status(ds, source_kind, status) ==
  {IF r.kind = source_kind THEN [r EXCEPT !.lastStatus = status, !.lastRunAt = now]
   ELSE r : r \in ds}

(***************************************************************************)
(* Task executions.  @app.task(bind=True, autoretry_for=(Exception,),      *)
(* retry_kwargs={'max_retries': 3, 'countdown': 60}): an execution that    *)
(* raises is executed again with request.retries + 1 until max_retries.    *)
(***************************************************************************)
TaskKinds == {"NVD", "OSV", "GHSA", "CISA_KEV", "RSS"}

NewExec(task, retries) ==
  [task |-> task, pc |-> "start", retries |-> retries, calls |-> 0, n |-> 0,
   err |-> EMPTY, kev_cves |-> {}, before |-> {}, reqs |-> 0,
   start_date |-> Never, end_date |-> Never, total |-> 0, tx |-> << >>]

Execs == BagToSet(runs)

Replace(e, f) == runs' = (runs (-) SetToBag({e})) (+) SetToBag({f})

Raise(e, err) == Replace(e, [e EXCEPT !.pc = "except", !.err = err])

(* the execution has made k more upstream requests *)
Sent(e, k) == [e EXCEPT !.reqs = @ + k]

(* the exception is raised after the execution went from e to f *)
RaiseWith(e, f, err) == Replace(e, [f EXCEPT !.pc = "except", !.err = err])

others == <<dbTables, env, deployed, api, http, now>>

Start(task) ==
  /\ task \in deployed
  /\ BagCardinality(runs) < MaxRuns
  /\ runs' = runs (+) SetToBag({NewExec(task, 0)})
  /\ UNCHANGED <<tables, data_sources, ingested, others>>

(* tasks.py 251, 339, 438, 491, 580: the status call that ends the try block *)
RecordSuccess(e) ==
  /\ e.pc = "update_status"
  /\ data_sources' = update_data_source_status(data_sources, e.task,
                                               Status("SUCCESS", e.n, "processed"))
  /\ Replace(e, [e EXCEPT !.pc = "returned", !.calls = @ + 1])
  /\ UNCHANGED <<tables, ingested, others>>

(* tasks.py 257-261 and the same handler of every task: record, then re-raise *)
RecordError(e) ==
  /\ e.pc = "except"
  /\ data_sources' = update_data_source_status(data_sources, e.task,
                                               Status("ERROR", 0, e.err))
  /\ Replace(e, [e EXCEPT !.pc = "raised", !.calls = @ + 1])
  /\ UNCHANGED <<tables, ingested, others>>

Return(e) ==
  /\ e.pc = "returned"
  /\ runs' = runs (-) SetToBag({e})
  /\ UNCHANGED <<tables, data_sources, ingested, others>>

Retry_Unbounded(e) ==
  /\ e.pc = "raised"
  /\ Replace(e, NewExec(e.task, e.retries + 1))
  /\ UNCHANGED <<tables, data_sources, ingested, others>>

Retry(e) ==
  /\ e.pc = "raised"
  /\ e.retries < max_retries
  /\ Replace(e, NewExec(e.task, e.retries + 1))
  /\ UNCHANGED <<tables, data_sources, ingested, others>>

GiveUp(e) ==
  /\ e.pc = "raised"
  /\ e.retries >= max_retries
  /\ runs' = runs (-) SetToBag({e})
  /\ UNCHANGED <<tables, data_sources, ingested, others>>

(***************************************************************************)
(* task_nvd_pull, tasks.py 133-261.                                        *)
(***************************************************************************)
(* 139-156: the window runs from "lastRunAt" of the enabled NVD row, or     *)
(* from seven days ago when there is no such row or the column is NULL, to *)
(* datetime.now()                                                          *)
last_run ==
  LET rows == {r \in data_sources : r.kind = "NVD" /\ r.enabled}
  IN IF rows = {} THEN now - Lookback
     ELSE LET result == (CHOOSE r \in rows : TRUE).lastRunAt
          IN IF result = Never THEN now - Lookback ELSE result

(* 158-167: one request, with resultsPerPage and without startIndex *)
NvdRequest(e) == [Sent(e, 1) EXCEPT !.start_date = last_run, !.end_date = now]

(* resultsPerPage is 2000; the bound on a batch stands for it *)
resultsPerPage == MaxBatch

(* totalResults of an answer: more than its items only when the page is full *)
NvdTotals(items) ==
  IF Len(items) = resultsPerPage THEN resultsPerPage..MaxTotal ELSE {Len(items)}

(* 139-170: the request, raise_for_status or the JSON decoding raises *)
NvdFetchFail(e) ==
  /\ e.task = "NVD" /\ e.pc = "start"
  /\ RaiseWith(e, NvdRequest(e), "HTTPError")
  /\ UNCHANGED <<tables, data_sources, ingested, others>>

(* 170-249: the response holds items; loop, commit (or close without commit) *)
NvdAnswer(e, items, totalResults) ==
  /\ e.task = "NVD" /\ e.pc = "start"
  /\ LET r == NvdLoop(cves, items, 0)
         f == [NvdRequest(e) EXCEPT !.total = totalResults]
     IN IF r.raised
        THEN /\ RaiseWith(e, f, "IndexError")
             /\ UNCHANGED <<cves, ingested>>
        ELSE /\ cves' = r.table
             /\ ingested' = [ingested EXCEPT !.cve =
                               @ \cup ({items[i].id : i \in 1..Len(items)} \ {NoId})]
             /\ Replace(e, [f EXCEPT !.pc = "update_status", !.n = r.n])
  /\ UNCHANGED <<osv_vulns, advisories, data_sources, others>>

(* the answer holds every record of the window: totalResults is its length *)
NvdIngest(e, items) == NvdAnswer(e, items, Len(items))

(***************************************************************************)
(* task_cisa_kev_sync, tasks.py 448-498.                                   *)
(***************************************************************************)
KevFetchFail(e) ==
  /\ e.task = "CISA_KEV" /\ e.pc = "start"
  /\ RaiseWith(e, Sent(e, 1), "HTTPError")
  /\ UNCHANGED <<tables, data_sources, ingested, others>>

KevSync(e, rows) ==
  /\ e.task = "CISA_KEV" /\ e.pc = "start"
  /\ LET kev_cves == ParseKevCsv(rows)
         t == KevMark(KevReset(cves), kev_cves)
     IN /\ cves' = t
        /\ Replace(e, [Sent(e, 1) EXCEPT !.pc = "update_status", !.n = KevCount(t),
                                        !.kev_cves = kev_cves, !.before = Flagged(cves)])
  /\ UNCHANGED <<osv_vulns, advisories, data_sources, ingested, others>>

(***************************************************************************)
(* task_osv_pull, tasks.py 264-346: the requests are made inside the       *)
(* transaction, which is committed after the last ecosystem.               *)
(***************************************************************************)
OsvQueries(responses) ==
  LET failed == {i \in 1..NEco : ~responses[i].ok}
  IN IF failed = {} THEN NEco ELSE CHOOSE i \in failed : \A j \in failed : i <= j

OsvPull(e, responses) ==
  /\ e.task = "OSV" /\ e.pc = "start"
  /\ LET r == OsvLoop(osv_vulns, responses, 1, 0)
     IN IF r.raised
        THEN /\ RaiseWith(e, Sent(e, OsvQueries(responses)), "HTTPError")
             /\ UNCHANGED <<osv_vulns, ingested>>
        ELSE /\ osv_vulns' = r.table
             /\ ingested' = [ingested EXCEPT !.osv = @ \cup
                  (UNION {{responses[i].vulns[j].id : j \in 1..Len(responses[i].vulns)}
                            : i \in 1..NEco} \ {NoId})]
             /\ Replace(e, [Sent(e, OsvQueries(responses)) EXCEPT
                              !.pc = "update_status", !.n = r.n])
  /\ UNCHANGED <<cves, advisories, data_sources, others>>

(***************************************************************************)
(* main.py 177-204: POST /datasources inserts an enabled RSS row.          *)
(***************************************************************************)
CreateDataSource(label, hasUrl) ==
  /\ "RSS" \in deployed
  /\ \A r \in data_sources : r.id # label
  /\ data_sources' = data_sources \cup
       {[id |-> label, kind |-> "RSS", enabled |-> TRUE,
         url |-> IF hasUrl THEN "u" ELSE EMPTY,
         lastStatus |-> Status("NONE", 0, EMPTY), lastRunAt |-> Never]}
  /\ UNCHANGED <<tables, runs, ingested, others>>

(***************************************************************************)
(* task_rss_pull_all, tasks.py 501-587.                                    *)
(***************************************************************************)
RECURSIVE RowsInOrder(_, _)
RowsInOrder(rows, labels) ==
  IF labels = <<>> THEN <<>>
  ELSE LET hit == {r \in rows : r.id = Head(labels)}
       IN (IF hit = {} THEN <<>> ELSE <<CHOOSE r \in hit : TRUE>>)
            \o RowsInOrder(rows, Tail(labels))

(* 509-513: SELECT ... WHERE kind = 'RSS' AND enabled = true *)
rss_sources == RowsInOrder({r \in data_sources : r.kind = "RSS" /\ r.enabled}, FeedLabels)

(* 507-514, 522-524: the connection or the query raises *)
RssRaises(e) ==
  /\ e.task = "RSS" /\ e.pc = "start"
  /\ Raise(e, "OperationalError")
  /\ UNCHANGED <<tables, data_sources, ingested, others>>

(* 516-518: no enabled RSS source: record and return *)
RssNoSources(e) ==
  /\ e.task = "RSS" /\ e.pc = "start"
  /\ rss_sources = <<>>
  /\ data_sources' = update_data_source_status(data_sources, "RSS",
                        Status("SUCCESS", 0, "No RSS sources configured"))
  /\ Replace(e, [e EXCEPT !.pc = "returned", !.calls = @ + 1])
  /\ UNCHANGED <<tables, ingested, others>>

EntryKey(link, title) == IF link = EMPTY \/ link = NULL THEN title ELSE link

(* 520-578: every feed is read and upserted in one transaction *)
RssPull(e, feeds) ==
  /\ e.task = "RSS" /\ e.pc = "start"
  /\ rss_sources # <<>>
  /\ LET r == RssLoop(advisories, rss_sources, feeds, 0)
         read == {src \in {rss_sources[i] : i \in 1..Len(rss_sources)} :
                    src.url # EMPTY /\ feeds[src.id].ok}
     IN /\ advisories' = r.table
        /\ ingested' = [ingested EXCEPT !.adv = @ \cup
             UNION {{EntryKey(feeds[src.id].entries[j].link,
                              feeds[src.id].entries[j].title)
                       : j \in 1..Len(feeds[src.id].entries)} : src \in read}]
        /\ Replace(e, [Sent(e, Cardinality({src \in data_sources :
                                    src.kind = "RSS" /\ src.enabled /\ src.url # EMPTY}))
                         EXCEPT !.pc = "update_status", !.n = r.n])
  /\ UNCHANGED <<cves, osv_vulns, data_sources, others>>

(***************************************************************************)
(* task_ghsa_pull, tasks.py 349-445.                                       *)
(***************************************************************************)
(* 353-356: no token: record the skip and return *)
GhsaSkip_Silent(e) ==
  /\ e.task = "GHSA" /\ e.pc = "start"
  /\ ~env.GITHUB_TOKEN
  /\ Replace(e, [e EXCEPT !.pc = "returned"])
  /\ UNCHANGED <<tables, data_sources, ingested, others>>

GhsaSkip(e) ==
  /\ e.task = "GHSA" /\ e.pc = "start"
  /\ ~env.GITHUB_TOKEN
  /\ data_sources' = update_data_source_status(data_sources, "GHSA",
                        Status("SKIPPED", 0, "No GitHub token configured"))
  /\ Replace(e, [e EXCEPT !.pc = "returned", !.calls = @ + 1])
  /\ UNCHANGED <<tables, ingested, others>>

GhsaFetchFail_NoTokenCheck(e) ==
  /\ e.task = "GHSA" /\ e.pc = "start"
  /\ RaiseWith(e, Sent(e, 1), "HTTPError")
  /\ UNCHANGED <<tables, data_sources, ingested, others>>

(* 385-393: the request or raise_for_status raises *)
GhsaFetchFail(e) ==
  /\ e.task = "GHSA" /\ e.pc = "start"
  /\ env.GITHUB_TOKEN
  /\ RaiseWith(e, Sent(e, 1), "HTTPError")
  /\ UNCHANGED <<tables, data_sources, ingested, others>>

(* 393-436: loop over the nodes, commit (or close without commit) *)
GhsaPull(e, nodes) ==
  /\ e.task = "GHSA" /\ e.pc = "start"
  /\ env.GITHUB_TOKEN
  /\ LET r == GhsaLoop(advisories, nodes, 0)
     IN IF r.raised
        THEN /\ RaiseWith(e, Sent(e, 1), "AttributeError")
             /\ UNCHANGED <<advisories, ingested>>
        ELSE /\ BagCardinality(r.table) <= MaxAdvRows
             /\ advisories' = r.table
             /\ ingested' = [ingested EXCEPT !.adv = @ \cup
                  {EntryKey(nodes[j].permalink, nodes[j].summary) : j \in 1..Len(nodes)}]
             /\ Replace(e, [Sent(e, 1) EXCEPT !.pc = "update_status", !.n = r.n])
  /\ UNCHANGED <<cves, osv_vulns, data_sources, others>>

(***************************************************************************)
(* Initial state: empty tables, the seeded row of every built-in source,   *)
(* no execution.  A behaviour exercises one entry point; the environment   *)
(* variables are free for the tasks that read them.                        *)
(***************************************************************************)
BuiltinKinds == {"NVD", "OSV", "GHSA", "CISA_KEV"}
valid_kinds == {"NVD", "OSV", "GHSA", "RSS", "MSRC", "CISA_KEV"}
CoolDown == 120
Period == 480
BeatStep == 15

SeedSources ==
  {[id |-> k, kind |-> k, enabled |-> TRUE, url |-> EMPTY,
    lastStatus |-> Status("NONE", 0, EMPTY), lastRunAt |-> Never] : k \in BuiltinKinds}

(***************************************************************************)
(* db.py: the helpers of the autocommit connection; every call is its own  *)
(* transaction.                                                            *)
(***************************************************************************)
DbHelpers == {"upsert_cve", "upsert_osv", "upsert_advisory", "update_datasource_status"}

pipeline == <<tables, data_sources, runs, ingested>>

(* db.py 10-14: only cvssMetricV31 is read; an empty list gives no score *)
DbCvss(cve) == IF cve.metrics = "v31" THEN V31Data ELSE NoCvss

(* db.py 7-37 *)
upsert_cve(t, cve, kev_ids) ==
  IF cve.id = NoId THEN t
  ELSE LET new == [id |-> cve.id, cvssScore |-> DbCvss(cve).baseScore,
                   cvssSeverity |-> DbCvss(cve).baseSeverity,
                   isKev |-> cve.id \in kev_ids]
       IN IF RowsWithId(t, cve.id) = {} THEN t (+) SetToBag({new})
          ELSE (t (-) SetToBag({CHOOSE r \in RowsWithId(t, cve.id) : TRUE}))
                 (+) SetToBag({new})

DbUpsertCve(cve, kev_ids) ==
  /\ "upsert_cve" \in deployed
  /\ Cve' = upsert_cve(Cve, cve, kev_ids)
  /\ UNCHANGED <<pipeline, OsvVuln, Advisory, DataSource, env, deployed, now, api, http>>

(* db.py 39-63: the ecosystem of affected[0], the type of severity[0]; an  *)
(* INSERT without id violates the primary key and raises                   *)
DbRawVulns == [id : OsvIds \cup {NoId}, ecosystem : {NULL, "npm", "PyPI"},
               severity : {NULL, "CVSS_V3"}]

upsert_osv(t, v) ==
  IF v.id = NoId THEN t
  ELSE LET new == [id |-> v.id, ecosystem |-> v.ecosystem, cvssSeverity |-> v.severity]
       IN IF RowsWithId(t, v.id) = {} THEN t (+) SetToBag({new})
          ELSE (t (-) SetToBag({CHOOSE r \in RowsWithId(t, v.id) : TRUE}))
                 (+) SetToBag({new})

DbUpsertOsv(v) ==
  /\ "upsert_osv" \in deployed
  /\ OsvVuln' = upsert_osv(OsvVuln, v)
  /\ UNCHANGED <<pipeline, Cve, Advisory, DataSource, env, deployed, now, api, http>>

(* ai.py 17-39: _chat answers None without key or when the request fails  *)
(* ai.py 41-52: summarize; None is written as the record of two NULLs      *)
None == [exec |-> NULL, tech |-> NULL]

Or(a, b) == IF a \in {NULL, EMPTY} THEN b ELSE a

summarize(text, exec_sum, tech_sum) ==
  IF text = EMPTY THEN None
  ELSE IF exec_sum \notin {NULL, EMPTY} \/ tech_sum \notin {NULL, EMPTY}
  THEN [exec |-> Or(exec_sum, EMPTY), tech |-> Or(tech_sum, EMPTY)]
  ELSE None

Summaries ==
  {summarize(text, exec_sum, tech_sum) :
     text \in {EMPTY, "c"}, exec_sum \in {NULL, "E1", "E2"}, tech_sum \in {NULL, "K1"}}

DbEntries == [id : {NULL, "G1"}, link : {NULL, "L1"}, title : Titles]

COALESCE(a, b) == IF a # NULL THEN a ELSE b

(* db.py 65-82: guid = id or link or title *)
upsert_advisory(t, source, entry, summaries) ==
  LET guid == Or(entry.id, Or(entry.link, entry.title))
      same == {r \in BagToSet(t) : r.id = guid}
  IN IF same = {}
     THEN t (+) SetToBag({[id |-> guid, source |-> source, title |-> entry.title,
                           link |-> entry.link, summary |-> summaries.exec,
                           summaryTech |-> summaries.tech]})
     ELSE LET old == CHOOSE r \in same : TRUE
              new == [old EXCEPT !.source = source, !.title = entry.title,
                        !.link = entry.link,
                        !.summary = COALESCE(summaries.exec, @),
                        !.summaryTech = COALESCE(summaries.tech, @)]
          IN (t (-) SetToBag({old})) (+) SetToBag({new})

DbUpsertAdvisory(source, entry, summaries) ==
  /\ "upsert_advisory" \in deployed
  /\ Advisory' = upsert_advisory(Advisory, source, entry, summaries)
  /\ UNCHANGED <<pipeline, Cve, OsvVuln, DataSource, env, deployed, now, api, http>>

(* db.py 84-86 *)
update_datasource_status(t, kind, status) ==
  {IF r.kind = kind THEN [r EXCEPT !.lastStatus = status] ELSE r : r \in t}

DbUpdateStatus(kind, status) ==
  /\ "update_datasource_status" \in deployed
  /\ DataSource' = update_datasource_status(DataSource, kind, status)
  /\ UNCHANGED <<pipeline, Cve, OsvVuln, Advisory, env, deployed, now, api, http>>

EntryPoints == TaskKinds \cup DbHelpers \cup {"api", "http"}

Envs(task) ==
  [GITHUB_TOKEN : IF task = "GHSA" THEN BOOLEAN ELSE {TRUE},
   CLAUDE_API_KEY : IF task \in {"GHSA", "RSS"} THEN BOOLEAN ELSE {TRUE}]

IdleHttp ==
  [pc |-> "idle", method |-> NULL, retries |-> 0, i |-> 0, log |-> <<>>,
   result |-> NULL]

(***************************************************************************)
(* main.py 140-175: POST /admin/run/{source_kind}.  redis holds the        *)
(* seconds to live of rate_limit:<kind>; the key exists while they are     *)
(* positive.  elapsed is CoolDown when no trigger was accepted yet.        *)
(***************************************************************************)
task_map ==
  [k \in valid_kinds |->
     CASE k = "NVD" -> "tasks.task_nvd_pull"
       [] k = "OSV" -> "tasks.task_osv_pull"
       [] k = "GHSA" -> "tasks.task_ghsa_pull"
       [] k = "RSS" -> "tasks.task_rss_pull_all"
       [] k = "MSRC" -> "tasks.task_msrc_pull"
       [] k = "CISA_KEV" -> "tasks.task_cisa_kev_sync"]

SourceKinds == {"NVD", "MSRC", "EPSS"}

exists_Never(r, rate_key) == FALSE

exists(r, rate_key) == r[rate_key] > 0

setex_AllKeys(r, rate_key, seconds) == [k \in DOMAIN r |-> seconds]

setex(r, rate_key, seconds) == [r EXCEPT ![rate_key] = seconds]

trigger_source_run_Refreshes(source_kind) ==
  /\ "api" \in deployed
  /\ IF source_kind \notin valid_kinds
     THEN /\ response' = [kind |-> source_kind, code |-> 400]
          /\ UNCHANGED <<redis, elapsed, queue>>
     ELSE IF exists(redis, source_kind)
     THEN /\ response' = [kind |-> source_kind, code |-> 429]
          /\ redis' = setex(redis, source_kind, CoolDown)
          /\ UNCHANGED <<elapsed, queue>>
     ELSE /\ BagCardinality(queue) < MaxQueue
          /\ redis' = setex(redis, source_kind, CoolDown)
          /\ elapsed' = [elapsed EXCEPT ![source_kind] = 0]
          /\ queue' = queue (+) SetToBag({task_map[source_kind]})
          /\ response' = [kind |-> source_kind, code |-> 200]
  /\ UNCHANGED <<pipeline, dbTables, env, deployed, now, admitted, clock, http>>

trigger_source_run(source_kind) ==
  /\ "api" \in deployed
  /\ IF source_kind \notin valid_kinds
     THEN /\ response' = [kind |-> source_kind, code |-> 400]
          /\ UNCHANGED <<redis, elapsed, queue>>
     ELSE IF exists(redis, source_kind)
     THEN /\ response' = [kind |-> source_kind, code |-> 429]
          /\ UNCHANGED <<redis, elapsed, queue>>
     ELSE /\ BagCardinality(queue) < MaxQueue
          /\ redis' = setex(redis, source_kind, CoolDown)
          /\ elapsed' = [elapsed EXCEPT ![source_kind] = 0]
          /\ queue' = queue (+) SetToBag({task_map[source_kind]})
          /\ response' = [kind |-> source_kind, code |-> 200]
  /\ UNCHANGED <<pipeline, dbTables, env, deployed, now, admitted, clock, http>>

(* TickSeconds pass: redis counts the keys down and drops them at zero *)
Tick ==
  /\ "api" \in deployed
  /\ redis' = [k \in valid_kinds |->
                 IF redis[k] > TickSeconds THEN redis[k] - TickSeconds ELSE 0]
  /\ elapsed' = [k \in valid_kinds |-> Min(CoolDown, elapsed[k] + TickSeconds)]
  /\ UNCHANGED <<queue, response, pipeline, dbTables, env, deployed, now, admitted, clock, http>>

(* a worker takes a message off the broker *)
Consume(task_name) ==
  /\ "api" \in deployed
  /\ BagIn(task_name, queue)
  /\ queue' = queue (-) SetToBag({task_name})
  /\ UNCHANGED <<redis, elapsed, response, pipeline, dbTables, env, deployed, now, admitted, clock, http>>

(***************************************************************************)
(* clients/http.py 11-21: Http._call.  log is the outcome of every attempt *)
(* made by the call in progress, result what the caller got.               *)
(***************************************************************************)
(* http.py 4: def __init__(self, retries=3, backoff=1.5) *)
default_retries == 3

Failures == {"ConnectionError", "Timeout", "HTTPError"}
Outcomes == {"ok"} \cup Failures

LastAttempt_First(i, retries) == i = 0

(* http.py 19: if i == self.retries: raise *)
LastAttempt(i, retries) == i = retries

HttpCall(retries, method) ==
  /\ "http" \in deployed
  /\ http.pc = "idle"
  /\ http' = [pc |-> "request", method |-> method, retries |-> retries, i |-> 0,
              log |-> <<>>, result |-> NULL]
  /\ UNCHANGED <<pipeline, dbTables, env, deployed, now, api>>

HttpAttempt_AlwaysSleeps(outcome) ==
  /\ http.pc = "request"
  /\ http' = IF outcome = "ok"
             THEN [http EXCEPT !.pc = "returned", !.log = Append(@, outcome),
                               !.result = "response"]
             ELSE [http EXCEPT !.pc = "sleep", !.log = Append(@, outcome)]
  /\ UNCHANGED <<pipeline, dbTables, env, deployed, now, api>>

(* 14-20: one pass of the loop body, up to the sleep *)
HttpAttempt(outcome) ==
  /\ http.pc = "request"
  /\ http' = IF outcome = "ok"
             THEN [http EXCEPT !.pc = "returned", !.log = Append(@, outcome),
                               !.result = "response"]
             ELSE IF LastAttempt(http.i, http.retries)
             THEN [http EXCEPT !.pc = "raised", !.log = Append(@, outcome),
                               !.result = outcome]
             ELSE [http EXCEPT !.pc = "sleep", !.log = Append(@, outcome)]
  /\ UNCHANGED <<pipeline, dbTables, env, deployed, now, api>>

(* 21 and 13: the sleep ends, the loop goes to its next pass *)
HttpSleep ==
  /\ http.pc = "sleep"
  /\ http' = [http EXCEPT !.pc = "request", !.i = @ + 1]
  /\ UNCHANGED <<pipeline, dbTables, env, deployed, now, api>>

(* the caller has its answer; the Http object serves the next call *)
HttpDone ==
  /\ http.pc \in {"returned", "raised"}
  /\ http' = IdleHttp
  /\ UNCHANGED <<pipeline, dbTables, env, deployed, now, api>>

InitStore ==
  /\ cves = EmptyBag /\ osv_vulns = EmptyBag /\ advisories = EmptyBag
  /\ Cve = EmptyBag /\ OsvVuln = EmptyBag /\ Advisory = EmptyBag
  /\ DataSource = {[kind |-> k, lastStatus |-> NULL] : k \in BuiltinKinds}
  /\ data_sources = SeedSources
  /\ runs = EmptyBag
  /\ ingested = [cve |-> {}, osv |-> {}, adv |-> {}, kev |-> {}]
  /\ redis = [k \in valid_kinds |-> 0]
  /\ elapsed = [k \in valid_kinds |-> CoolDown]
  /\ queue = EmptyBag
  /\ response = [kind |-> EMPTY, code |-> 0]
  /\ http = IdleHttp
  /\ now = Lookback
  /\ admitted = EmptyBag
  /\ clock = 0

Init ==
  /\ InitStore
  /\ \E entry \in EntryPoints : deployed = {entry} /\ env \in Envs(entry)

Next ==
  \/ \E task \in TaskKinds : Start(task)
  \/ \E e \in Execs : NvdFetchFail(e)
  \/ \E e \in Execs, items \in NvdBatches : NvdIngest(e, items)
  \/ \E e \in Execs : KevFetchFail(e)
  \/ \E e \in Execs, rows \in KevCsvs : KevSync(e, rows)
  \/ \E e \in Execs, responses \in OsvResponses : OsvPull(e, responses)
  \/ \E label \in {FeedLabels[i] : i \in 1..Len(FeedLabels)}, hasUrl \in BOOLEAN :
       CreateDataSource(label, hasUrl)
  \/ \E e \in Execs : RssRaises(e)
  \/ \E e \in Execs : RssNoSources(e)
  \/ \E e \in Execs, feeds \in [{r.id : r \in {x \in data_sources : x.kind = "RSS"}}
                                  -> RssFeeds] : RssPull(e, feeds)
  \/ \E e \in Execs : GhsaSkip(e)
  \/ \E e \in Execs : GhsaFetchFail(e)
  \/ \E e \in Execs, nodes \in SeqsUpTo(GhsaNodes, MaxNodes) : GhsaPull(e, nodes)
  \/ \E e \in Execs : RecordSuccess(e)
  \/ \E e \in Execs : RecordError(e)
  \/ \E e \in Execs : Return(e)
  \/ \E e \in Execs : Retry(e)
  \/ \E e \in Execs : GiveUp(e)
  \/ \E cve \in RawCves, kev_ids \in SUBSET CveIds : DbUpsertCve(cve, kev_ids)
  \/ \E v \in DbRawVulns : DbUpsertOsv(v)
  \/ \E entry \in DbEntries, summaries \in Summaries :
       DbUpsertAdvisory("RSS", entry, summaries)
  \/ \E kind \in {"NVD", "MSRC"}, status \in {"OK", "ERROR"} :
       DbUpdateStatus(kind, status)
  \/ \E source_kind \in SourceKinds : trigger_source_run(source_kind)
  \/ Tick
  \/ \E task_name \in {task_map[k] : k \in valid_kinds} : Consume(task_name)
  \/ \E retries \in 0..MaxHttpRetries, method \in {"GET", "POST"} :
       HttpCall(retries, method)
  \/ \E outcome \in Outcomes : HttpAttempt(outcome)
  \/ HttpSleep
  \/ HttpDone

Spec == Init /\ [][Next]_vars

(***************************************************************************)
(* The CVE pipeline alone: NVD pull and KEV sync share table cves.         *)
(***************************************************************************)
InitCve ==
  /\ InitStore
  /\ deployed = {"NVD", "CISA_KEV"}
  /\ env = [GITHUB_TOKEN |-> TRUE, CLAUDE_API_KEY |-> TRUE]

NextCve ==
  \/ \E task \in {"NVD", "CISA_KEV"} : Start(task)
  \/ \E e \in Execs : NvdFetchFail(e)
  \/ \E e \in Execs, items \in NvdBatches : NvdIngest(e, items)
  \/ \E e \in Execs : KevFetchFail(e)
  \/ \E e \in Execs, rows \in KevCsvs : KevSync(e, rows)
  \/ \E e \in Execs : RecordSuccess(e)
  \/ \E e \in Execs : RecordError(e)
  \/ \E e \in Execs : Return(e)
  \/ \E e \in Execs : Retry(e)
  \/ \E e \in Execs : GiveUp(e)

SpecCve == InitCve /\ [][NextCve]_vars

(***************************************************************************)
(* The trigger endpoint alone, and the transport alone.                    *)
(***************************************************************************)
InitApi ==
  /\ InitStore
  /\ deployed = {"api"}
  /\ env = [GITHUB_TOKEN |-> TRUE, CLAUDE_API_KEY |-> TRUE]

NextApi ==
  \/ \E source_kind \in SourceKinds : trigger_source_run(source_kind)
  \/ Tick
  \/ \E task_name \in {task_map[k] : k \in valid_kinds} : Consume(task_name)

SpecApi == InitApi /\ [][NextApi]_vars

InitHttp ==
  /\ InitStore
  /\ deployed = {"http"}
  /\ env = [GITHUB_TOKEN |-> TRUE, CLAUDE_API_KEY |-> TRUE]

NextHttp ==
  \/ \E retries \in 0..MaxHttpRetries, method \in {"GET", "POST"} :
       HttpCall(retries, method)
  \/ \E outcome \in Outcomes : HttpAttempt(outcome)
  \/ HttpSleep
  \/ HttpDone

SpecHttp == InitHttp /\ [][NextHttp]_vars

(***************************************************************************)
(* main.py 112-138: GET /admin/status answers one entry per enabled row of *)
(* data_sources (ORDER BY kind; the order is left out here).               *)
(***************************************************************************)
get_admin_status(ds) ==
  {[id |-> r.id, kind |-> r.kind, lastRunAt |-> r.lastRunAt,
    lastStatus |-> r.lastStatus] : r \in {x \in ds : x.enabled}}

(***************************************************************************)
(* Scheduling.  tasks.py 24-46: celery beat publishes the task of every    *)
(* entry of beat_schedule at its crontab times, whatever the state of the  *)
(* earlier executions; main.py 162-170 publishes on an accepted trigger.   *)
(* A worker process with a free slot takes a message and executes the      *)
(* task.  No lock is taken anywhere; the worker is started with celery's   *)
(* default concurrency, one slot per core.                                 *)
(***************************************************************************)
beat_schedule == {"NVD", "OSV", "GHSA", "CISA_KEV", "RSS"}

Beat(kind) ==
  /\ "beat" \in deployed
  /\ kind \in beat_schedule
  /\ BagCardinality(queue) < MaxQueue
  /\ queue' = queue (+) SetToBag({task_map[kind]})
  /\ UNCHANGED <<redis, elapsed, response, pipeline, dbTables, env, deployed, now, admitted, clock, http>>

(* a worker slot takes the message and starts the task it names *)
Deliver(kind) ==
  /\ "worker" \in deployed
  /\ kind \in TaskKinds
  /\ BagIn(task_map[kind], queue)
  /\ BagCardinality(runs) < WorkerSlots
  /\ queue' = queue (-) SetToBag({task_map[kind]})
  /\ runs' = runs (+) SetToBag({NewExec(kind, 0)})
  /\ UNCHANGED <<redis, elapsed, response, tables, data_sources, ingested, dbTables,
                 env, deployed, now, admitted, clock, http>>

(* the RSS source, scheduled by beat and triggered by hand, on one worker *)
InitSched ==
  /\ InitStore
  /\ deployed = {"api", "beat", "worker"}
  /\ env = [GITHUB_TOKEN |-> TRUE, CLAUDE_API_KEY |-> TRUE]

NextSched ==
  \/ trigger_source_run("RSS")
  \/ Tick
  \/ Beat("RSS")
  \/ Deliver("RSS")
  \/ \E e \in Execs : RssRaises(e)
  \/ \E e \in Execs : RssNoSources(e)
  \/ \E e \in Execs : RecordError(e)
  \/ \E e \in Execs : Return(e)
  \/ \E e \in Execs : Retry(e)
  \/ \E e \in Execs : GiveUp(e)

SpecSched == InitSched /\ [][NextSched]_vars

(***************************************************************************)
(* Two sources side by side on one worker: GHSA, and RSS without a feed    *)
(* row, which can only fail or find nothing to do.                         *)
(***************************************************************************)
InitPair ==
  /\ InitStore
  /\ deployed = {"beat", "worker"}
  /\ env = [GITHUB_TOKEN |-> TRUE, CLAUDE_API_KEY |-> TRUE]

(* the answers of GitHub in this scenario: one advisory, summarized or not, *)
(* or an answer with a null node                                           *)
PairNodes ==
  {nodes \in SeqsUpTo(GhsaNodes, MaxNodes) :
     \A i \in 1..Len(nodes) :
       \/ nodes[i] = NullNode
       \/ /\ nodes[i].permalink = "G1" /\ nodes[i].summary = "T1"
          /\ nodes[i].description = "c" /\ nodes[i].ai \in {"fail", "1"}}

NextPair ==
  \/ \E kind \in {"GHSA", "RSS"} : Beat(kind)
  \/ \E kind \in {"GHSA", "RSS"} : Deliver(kind)
  \/ \E e \in Execs : RssRaises(e)
  \/ \E e \in Execs : RssNoSources(e)
  \/ \E e \in Execs : GhsaFetchFail(e)
  \/ \E e \in Execs, nodes \in PairNodes : GhsaPull(e, nodes)
  \/ \E e \in Execs : RecordSuccess(e)
  \/ \E e \in Execs : RecordError(e)
  \/ \E e \in Execs : Return(e)
  \/ \E e \in Execs : Retry(e)
  \/ \E e \in Execs : GiveUp(e)

SpecPair == InitPair /\ [][NextPair]_vars

(***************************************************************************)
(* The advisory pipeline alone: the GHSA pull, or the RSS pull with one    *)
(* feed row.                                                               *)
(***************************************************************************)
InitAdv ==
  /\ InitStore
  /\ \E entry \in {"GHSA", "RSS"} : deployed = {entry} /\ env \in Envs(entry)

NextAdv ==
  \/ \E task \in {"GHSA", "RSS"} : Start(task)
  \/ \E hasUrl \in BOOLEAN : CreateDataSource(FeedLabels[1], hasUrl)
  \/ \E e \in Execs : RssRaises(e)
  \/ \E e \in Execs : RssNoSources(e)
  \/ \E e \in Execs, feeds \in [{r.id : r \in {x \in data_sources : x.kind = "RSS"}}
                                  -> RssFeeds] : RssPull(e, feeds)
  \/ \E e \in Execs : GhsaSkip(e)
  \/ \E e \in Execs : GhsaFetchFail(e)
  \/ \E e \in Execs, nodes \in SeqsUpTo(GhsaNodes, MaxNodes) : GhsaPull(e, nodes)
  \/ \E e \in Execs : RecordSuccess(e)
  \/ \E e \in Execs : RecordError(e)
  \/ \E e \in Execs : Return(e)
  \/ \E e \in Execs : Retry(e)
  \/ \E e \in Execs : GiveUp(e)

SpecAdv == InitAdv /\ [][NextAdv]_vars

(***************************************************************************)
(* The NVD pull over time: a day passes between steps, up to MaxTime, and  *)
(* every run computes its window from "lastRunAt" (tasks.py 139-156).      *)
(***************************************************************************)
Advance ==
  /\ "clock" \in deployed
  /\ now < MaxTime
  /\ now' = now + 1
  /\ UNCHANGED <<pipeline, dbTables, env, deployed, api, http>>

(* the answers of NVD in this scenario: the records 1, 2, ... up to a full *)
(* page, well formed, with a totalResults that may exceed the page         *)
WindowBatches ==
  {items \in NvdBatches :
     \A i \in 1..Len(items) : items[i].id = i /\ items[i].metrics = "v31"}

InitWindow ==
  /\ InitStore
  /\ deployed = {"NVD", "clock"}
  /\ env = [GITHUB_TOKEN |-> TRUE, CLAUDE_API_KEY |-> TRUE]

NextWindow ==
  \/ Start("NVD")
  \/ Advance
  \/ \E e \in Execs : NvdFetchFail(e)
  \/ \E e \in Execs, items \in WindowBatches :
       \E totalResults \in NvdTotals(items) : NvdAnswer(e, items, totalResults)
  \/ \E e \in Execs : RecordSuccess(e)
  \/ \E e \in Execs : RecordError(e)
  \/ \E e \in Execs : Return(e)
  \/ \E e \in Execs : Retry(e)
  \/ \E e \in Execs : GiveUp(e)

SpecWindow == InitWindow /\ [][NextWindow]_vars

(***************************************************************************)
(* Manual triggers and the worker.  main.py 162-173 publishes the name     *)
(* task_map gives for the kind; tasks.py registers five tasks (132, 263,   *)
(* 348, 447, 500) and none named tasks.task_msrc_pull: the worker has no   *)
(* task for that message and drops it.                                     *)
(***************************************************************************)
Discard(kind) ==
  /\ "worker" \in deployed
  /\ kind \in valid_kinds \ TaskKinds
  /\ BagIn(task_map[kind], queue)
  /\ queue' = queue (-) SetToBag({task_map[kind]})
  /\ UNCHANGED <<redis, elapsed, response, pipeline, dbTables, env, deployed, now, admitted, clock, http>>

InitTrigger ==
  /\ InitStore
  /\ deployed = {"api", "worker"}
  /\ env = [GITHUB_TOKEN |-> TRUE, CLAUDE_API_KEY |-> TRUE]

NextTrigger ==
  \/ \E source_kind \in {"RSS", "MSRC"} : trigger_source_run(source_kind)
  \/ Tick
  \/ Deliver("RSS")
  \/ Discard("MSRC")
  \/ \E e \in Execs : RssRaises(e)
  \/ \E e \in Execs : RssNoSources(e)
  \/ \E e \in Execs : RecordError(e)
  \/ \E e \in Execs : Return(e)
  \/ \E e \in Execs : Retry(e)
  \/ \E e \in Execs : GiveUp(e)

SpecTrigger == InitTrigger /\ [][NextTrigger]_vars

(***************************************************************************)
(* The trigger endpoint served by several API processes.  Inside one       *)
(* process the handler has no await and runs to its end; between           *)
(* processes redis_client.exists (main.py 153) and redis_client.setex      *)
(* (160) are two commands, and another process may run between them.      *)
(***************************************************************************)
(* 143-157: the two tests of the handler *)
trigger_check(source_kind) ==
  /\ "processes" \in deployed
  /\ IF source_kind \notin valid_kinds
     THEN /\ response' = [kind |-> source_kind, code |-> 400]
          /\ UNCHANGED admitted
     ELSE IF exists(redis, source_kind)
     THEN /\ response' = [kind |-> source_kind, code |-> 429]
          /\ UNCHANGED admitted
     ELSE /\ BagCardinality(admitted) < ApiProcesses
          /\ admitted' = admitted (+) SetToBag({source_kind})
          /\ UNCHANGED response
  /\ UNCHANGED <<redis, elapsed, queue, pipeline, dbTables, env, deployed, now, clock, http>>

(* 159-175: the key is set, the task is published, the caller is answered *)
trigger_dispatch(source_kind) ==
  /\ "processes" \in deployed
  /\ BagIn(source_kind, admitted)
  /\ BagCardinality(queue) < MaxQueue
  /\ admitted' = admitted (-) SetToBag({source_kind})
  /\ redis' = setex(redis, source_kind, CoolDown)
  /\ elapsed' = [elapsed EXCEPT ![source_kind] = 0]
  /\ queue' = queue (+) SetToBag({task_map[source_kind]})
  /\ response' = [kind |-> source_kind, code |-> 200]
  /\ UNCHANGED <<pipeline, dbTables, env, deployed, now, clock, http>>

InitRace ==
  /\ InitStore
  /\ deployed = {"api", "processes"}
  /\ env = [GITHUB_TOKEN |-> TRUE, CLAUDE_API_KEY |-> TRUE]

NextRace ==
  \/ \E source_kind \in SourceKinds : trigger_check(source_kind)
  \/ \E source_kind \in SourceKinds : trigger_dispatch(source_kind)
  \/ Tick
  \/ \E task_name \in {task_map[k] : k \in valid_kinds} : Consume(task_name)

SpecRace == InitRace /\ [][NextRace]_vars

(***************************************************************************)
(* The beat schedule in time.  tasks.py 25-46: every entry is              *)
(* crontab(minute=m, hour='*/8'), due at minute m of the hours 0, 8 and    *)
(* 16, that is m minutes into every period of 480 minutes.  The clock      *)
(* moves in steps of a quarter of an hour, which all five minutes fall on. *)
(***************************************************************************)
crontab ==
  [k \in beat_schedule |->
     CASE k = "NVD" -> 0
       [] k = "OSV" -> 15
       [] k = "GHSA" -> 30
       [] k = "CISA_KEV" -> 45
       [] k = "RSS" -> 0]

Due(kind, t) == t % Period = crontab[kind]

DueAt(t) == {k \in beat_schedule : Due(k, t)}

(* the clock reaches the next quarter and beat publishes what is due then *)
BeatTick ==
  /\ "beat" \in deployed
  /\ LET t == (clock + BeatStep) % Period
     IN /\ BagCardinality(queue) + Cardinality(DueAt(t)) <= MaxQueue
        /\ clock' = t
        /\ queue' = queue (+) SetToBag({task_map[k] : k \in DueAt(t)})
  /\ UNCHANGED <<redis, elapsed, response, admitted, pipeline, dbTables, env, deployed,
                 now, http>>

InitBeat ==
  /\ InitStore
  /\ deployed = {"api", "beat"}
  /\ env = [GITHUB_TOKEN |-> TRUE, CLAUDE_API_KEY |-> TRUE]

NextBeat ==
  \/ BeatTick
  \/ \E task_name \in {task_map[k] : k \in valid_kinds} : Consume(task_name)

SpecBeat == InitBeat /\ [][NextBeat]_vars

(***************************************************************************)
(* task_cisa_kev_sync statement by statement, tasks.py 468-489.  The       *)
(* connection of get_db_connection (tasks.py 54-56) is not in autocommit   *)
(* mode: the two UPDATEs are written inside one transaction, whose rows    *)
(* are locked and whose values no other connection reads before            *)
(* conn.commit() (483); conn.close() (489) without a commit discards them. *)
(* tx is the transaction's write set: the flag it holds for every row it   *)
(* wrote.                                                                  *)
(***************************************************************************)
LockedByOthers(e) == UNION {DOMAIN f.tx : f \in Execs \ {e}}

TxWrite(t, tx) ==
  LET write(r) == IF r.id \in DOMAIN tx THEN [r EXCEPT !.isKev = tx[r.id]] ELSE r
  IN BagOfAll(write, t)

(* tasks.py 455-466: the download succeeds and the identifiers are collected *)
KevFetch(e, rows) ==
  /\ e.task = "CISA_KEV" /\ e.pc = "start"
  /\ Replace(e, [Sent(e, 1) EXCEPT !.pc = "reset", !.kev_cves = ParseKevCsv(rows)])
  /\ UNCHANGED <<tables, data_sources, ingested, others>>

(* tasks.py 472: UPDATE cves SET "isKev" = false, waiting for locked rows *)
KevTxReset_Autocommit(e) ==
  /\ e.task = "CISA_KEV" /\ e.pc = "reset"
  /\ Stored(cves) \cap LockedByOthers(e) = {}
  /\ cves' = KevReset(cves)
  /\ Replace(e, [e EXCEPT !.pc = "mark"])
  /\ UNCHANGED <<osv_vulns, advisories, data_sources, ingested, others>>

KevTxReset(e) ==
  /\ e.task = "CISA_KEV" /\ e.pc = "reset"
  /\ Stored(cves) \cap LockedByOthers(e) = {}
  /\ Replace(e, [e EXCEPT !.pc = "mark", !.tx = [id \in Stored(cves) |-> FALSE]])
  /\ UNCHANGED <<tables, data_sources, ingested, others>>

(* tasks.py 475-480: UPDATE cves SET "isKev" = true WHERE id IN (...) *)
KevTxMark(e) ==
  /\ e.task = "CISA_KEV" /\ e.pc = "mark"
  /\ LET hit == IF e.kev_cves = {} THEN {} ELSE e.kev_cves \cap Stored(cves)
     IN /\ hit \cap LockedByOthers(e) = {}
        /\ Replace(e, [e EXCEPT !.pc = "commit",
                                !.tx = [id \in DOMAIN e.tx \cup hit |->
                                          IF id \in hit THEN TRUE ELSE e.tx[id]]])
  /\ UNCHANGED <<tables, data_sources, ingested, others>>

(* tasks.py 483-486: conn.commit(), then the count of the flagged rows *)
KevTxCommit(e) ==
  /\ e.task = "CISA_KEV" /\ e.pc = "commit"
  /\ LET t == TxWrite(cves, e.tx)
     IN /\ cves' = t
        /\ Replace(e, [e EXCEPT !.pc = "update_status", !.n = KevCount(t), !.tx = << >>])
  /\ ingested' = [ingested EXCEPT !.kev = e.kev_cves]
  /\ UNCHANGED <<osv_vulns, advisories, data_sources, others>>

(* tasks.py 469-489: a statement or the commit raises; finally conn.close() *)
KevTxFail(e) ==
  /\ e.task = "CISA_KEV" /\ e.pc \in {"reset", "mark", "commit"}
  /\ RaiseWith(e, [e EXCEPT !.tx = << >>], "DatabaseError")
  /\ UNCHANGED <<tables, data_sources, ingested, others>>

(* tasks.py 228-247: the upsert of a row waits while another transaction   *)
(* holds the row's lock                                                    *)
NvdIngestUnlocked(e, items) ==
  /\ {items[i].id : i \in 1..Len(items)} \cap LockedByOthers(e) = {}
  /\ NvdIngest(e, items)

(* one record per answer, without metrics; one identifier per snapshot *)
TxBatches == {<<[id |-> i, metrics |-> "none"]>> : i \in 1..MaxTxId}

TxCsvs == {<<i>> : i \in (1..MaxTxId) \cup {NoId}}

(***************************************************************************)
(* The CVE pipeline on a worker that executes NVD pulls and KEV syncs      *)
(* concurrently, the KEV transaction statement by statement.               *)
(***************************************************************************)
InitKevTx ==
  /\ InitStore
  /\ deployed = {"beat", "worker"}
  /\ env = [GITHUB_TOKEN |-> TRUE, CLAUDE_API_KEY |-> TRUE]

NextKevTx ==
  \/ \E kind \in {"NVD", "CISA_KEV"} : Beat(kind)
  \/ \E kind \in {"NVD", "CISA_KEV"} : Deliver(kind)
  \/ \E e \in Execs, items \in TxBatches : NvdIngestUnlocked(e, items)
  \/ \E e \in Execs, rows \in TxCsvs : KevFetch(e, rows)
  \/ \E e \in Execs : KevTxReset(e)
  \/ \E e \in Execs : KevTxMark(e)
  \/ \E e \in Execs : KevTxCommit(e)
  \/ \E e \in Execs : KevTxFail(e)
  \/ \E e \in Execs : RecordSuccess(e)
  \/ \E e \in Execs : RecordError(e)
  \/ \E e \in Execs : Return(e)
  \/ \E e \in Execs : Retry(e)
  \/ \E e \in Execs : GiveUp(e)

SpecKevTx == InitKevTx /\ [][NextKevTx]_vars

(***************************************************************************)
(* Properties.                                                             *)
(***************************************************************************)
(* the number of rows of table t that are in set S *)
Count(t, S) == BagCardinality([r \in S \cap BagToSet(t) |-> t[r]])

(* the step of e is the committed transaction of its task *)
Committed(e) ==
  \E f \in BagToSet(runs') :
    /\ f.task = e.task /\ f.retries = e.retries /\ f.pc = "update_status"
    /\ runs' = (runs (-) SetToBag({e})) (+) SetToBag({f})

(***************************************************************************)
(* C1: after a successful KEV sync with snapshot S, every stored record is *)
(* flagged if and only if its identifier is in S, whatever was flagged     *)
(* before the sync.                                                        *)
(***************************************************************************)
C1_KevFullReplace ==
  [][\A e \in Execs, rows \in KevCsvs :
       KevSync(e, rows) =>
         \A r \in BagToSet(cves') : r.isKev <=> r.id \in ParseKevCsv(rows)]_vars

(* {1, 2} flagged, snapshot {2, 3}: exactly 2 and 3 flagged, 1 unflagged *)
C1_Witness ==
  \E e \in Execs :
    /\ e.task = "CISA_KEV" /\ e.pc = "update_status"
    /\ e.before = {1, 2} /\ e.kev_cves = {2, 3}
    /\ Stored(cves) = {1, 2, 3} /\ Flagged(cves) = {2, 3}

(***************************************************************************)
(* C2: however often a raw CVE or OSV record is ingested, its identifier   *)
(* has exactly one stored row, which holds the values of the latest        *)
(* ingestion; a table never has more rows than identifiers were ingested.  *)
(***************************************************************************)
LastIndex(items, id) ==
  CHOOSE i \in 1..Len(items) :
    items[i].id = id /\ \A j \in (i + 1)..Len(items) : items[j].id # id

OsvPlaces(responses, id) ==
  {p \in (1..NEco) \X (1..MaxVulns) :
     p[2] <= Len(responses[p[1]].vulns) /\ responses[p[1]].vulns[p[2]].id = id}

LastPlace(responses, id) ==
  CHOOSE p \in OsvPlaces(responses, id) :
    \A q \in OsvPlaces(responses, id) :
      q[1] < p[1] \/ (q[1] = p[1] /\ q[2] <= p[2])

C2_UpsertIdempotent ==
  [][/\ BagCardinality(cves') <= Cardinality(ingested'.cve)
     /\ BagCardinality(osv_vulns') <= Cardinality(ingested'.osv)
     /\ \A e \in {x \in Execs : x.task = "NVD" /\ x.pc = "start"}, items \in NvdBatches :
          (Committed(e) /\ NvdIngest(e, items)) =>
            \A id \in {items[i].id : i \in 1..Len(items)} \ {NoId} :
              LET cvss == ExtractCvss(items[LastIndex(items, id)])
                  Mine(r) == r.id = id
              IN /\ Count(cves', {r \in BagToSet(cves') : Mine(r)}) = 1
                 /\ HasRow(cves', id, cvss.baseSeverity, cvss.baseScore)
     /\ \A e \in {x \in Execs : x.task = "OSV" /\ x.pc = "start"},
            responses \in OsvResponses :
          (Committed(e) /\ OsvPull(e, responses)) =>
            \A id \in OsvIds :
              OsvPlaces(responses, id) # {} =>
                LET p == LastPlace(responses, id)
                    Mine(r) == r.id = id
                    Latest(r) == /\ r.id = id
                                 /\ r.ecosystem = ecosystems[p[1]]
                                 /\ r.severity = OsvSeverity(responses[p[1]].vulns[p[2]])
                IN /\ Count(osv_vulns', {r \in BagToSet(osv_vulns') : Mine(r)}) = 1
                   /\ Count(osv_vulns', {r \in BagToSet(osv_vulns') : Latest(r)}) = 1
     /\ \A cve \in RawCves, kev_ids \in SUBSET CveIds :
          (DbUpsertCve(cve, kev_ids) /\ cve.id # NoId) =>
            LET Mine(r) == r.id = cve.id
                Latest(r) == /\ r.id = cve.id
                             /\ r.cvssScore = DbCvss(cve).baseScore
                             /\ r.cvssSeverity = DbCvss(cve).baseSeverity
            IN /\ Count(Cve', {r \in BagToSet(Cve') : Mine(r)}) = 1
               /\ Count(Cve', {r \in BagToSet(Cve') : Latest(r)}) = 1
     /\ \A v \in DbRawVulns :
          (DbUpsertOsv(v) /\ v.id # NoId) =>
            LET Mine(r) == r.id = v.id
                Latest(r) == r = [id |-> v.id, ecosystem |-> v.ecosystem,
                                  cvssSeverity |-> v.severity]
            IN /\ Count(OsvVuln', {r \in BagToSet(OsvVuln') : Mine(r)}) = 1
               /\ Count(OsvVuln', {r \in BagToSet(OsvVuln') : Latest(r)}) = 1]_vars

(* the record of identifier 1 ingested twice, the second time with other values *)
C2_Witness ==
  /\ \E e \in Execs : e.task = "NVD" /\ e.pc = "update_status" /\ e.n = 2
  /\ ingested.cve = {1}
  /\ BagCardinality(cves) = 1
  /\ HasRow(cves, 1, "MEDIUM", "5.0")

(***************************************************************************)
(* C3: every advisory entry ingested, from RSS or GHSA, has exactly one    *)
(* stored row, whose identity is the entry's link or, without link, its    *)
(* title; a re-run adds no second row.                                     *)
(***************************************************************************)
C3_AdvisoryIdempotent ==
  \A k \in ingested.adv :
    LET Mine(r) == EntryKey(r.sourceUrl, r.title) = k
    IN Count(advisories, {r \in BagToSet(advisories) : Mine(r)}) = 1

(***************************************************************************)
(* C4: coalesce law: an upsert that carries empty summaries leaves the     *)
(* stored summaries of the advisory unchanged, so a stored summary that is *)
(* non-empty never becomes empty.                                          *)
(***************************************************************************)
C4_CoalesceLaw ==
  [][\A r \in BagToSet(advisories) :
       r.sourceUrl # NULL =>
         \A r2 \in RowsWithUrl(advisories', r.sourceUrl) :
           /\ r.summary # EMPTY => r2.summary # EMPTY
           /\ r.summaryTech # EMPTY => r2.summaryTech # EMPTY]_vars

(***************************************************************************)
(* C5: after an accepted manual trigger of a source, every manual trigger  *)
(* of that source is rejected as rate limited until 120 seconds have       *)
(* elapsed, and the first trigger after that is accepted.                  *)
(***************************************************************************)
C5_CoolDown ==
  [][\A source_kind \in SourceKinds \cap valid_kinds :
       trigger_source_run(source_kind) =>
         IF elapsed[source_kind] < 120
         THEN /\ response' = [kind |-> source_kind, code |-> 429]
              /\ queue' = queue
              /\ elapsed'[source_kind] = elapsed[source_kind]
         ELSE /\ response' = [kind |-> source_kind, code |-> 200]
              /\ queue' = queue (+) SetToBag({task_map[source_kind]})
              /\ elapsed'[source_kind] = 0]_vars

(* a trigger of NVD rejected TickSeconds after the accepted one, whose     *)
(* message is still on the broker                                          *)
C5_Witness ==
  /\ response = [kind |-> "NVD", code |-> 429]
  /\ elapsed["NVD"] = TickSeconds
  /\ BagIn(task_map["NVD"], queue)

(***************************************************************************)
(* C6: a Transport call returns the response of the first attempt that     *)
(* succeeds, whatever failed before it, and raises to the caller only      *)
(* when every configured attempt has failed; then it always raises.        *)
(***************************************************************************)
AllFailed(log) == \A j \in 1..Len(log) : log[j] \in Failures

C6_TransportRetry ==
  /\ (Len(http.log) > 0 /\ http.log[Len(http.log)] = "ok")
       => http.pc = "returned" /\ http.result = "response"
  /\ (Len(http.log) = http.retries + 1 /\ AllFailed(http.log))
       => http.pc = "raised" /\ http.result \in Failures
  /\ http.pc = "raised"
       => Len(http.log) = http.retries + 1 /\ AllFailed(http.log)
  /\ http.pc = "returned"
       => http.log[Len(http.log)] = "ok" /\ AllFailed(SubSeq(http.log, 1, Len(http.log) - 1))

(* two attempts failed, the third succeeded: the caller has the response *)
C6_Witness ==
  /\ http.pc = "returned" /\ http.result = "response"
  /\ Len(http.log) = 3
  /\ http.log[1] \in Failures /\ http.log[2] \in Failures /\ http.log[3] = "ok"

(***************************************************************************)
(* C7: a malformed record of a fetched batch is skipped alone: every other *)
(* record of the batch is stored and the run goes on to record success.    *)
(***************************************************************************)
C7_PerRecordResilience ==
  [][\A e \in Execs, items \in NvdBatches :
       NvdIngest(e, items) =>
         /\ \A i \in 1..Len(items) :
              (items[i].id # NoId /\ ~CvssRaises(items[i]))
                => items[i].id \in Stored(cves')
         /\ Committed(e)]_vars

(***************************************************************************)
(* C8: an NVD response with one item scored 9.8/CRITICAL under CVSS v3.1   *)
(* and one item without metrics stores CRITICAL/9.8 for the first and null *)
(* severity and score for the second; a KEV sync whose snapshot lists only *)
(* the first identifier then leaves the first flagged and the second not.  *)
(***************************************************************************)
C8_EndToEnd ==
  [][\A e \in Execs, a \in CveIds : \A b \in CveIds \ {a} :
       /\ NvdIngest(e, <<[id |-> a, metrics |-> "v31"], [id |-> b, metrics |-> "none"]>>)
            => /\ HasRow(cves', a, "CRITICAL", "9.8")
               /\ HasRow(cves', b, NULL, NULL)
               /\ Cardinality(RowsWithId(cves', a)) = 1
               /\ Cardinality(RowsWithId(cves', b)) = 1
       /\ (HasRow(cves, a, "CRITICAL", "9.8") /\ HasRow(cves, b, NULL, NULL)
             /\ \E rows \in KevCsvs : ParseKevCsv(rows) = {a} /\ KevSync(e, rows))
            => /\ a \in Flagged(cves') /\ b \notin Flagged(cves')
               /\ HasRow(cves', a, "CRITICAL", "9.8")
               /\ HasRow(cves', b, NULL, NULL)]_vars

C8_Witness ==
  /\ \E e \in Execs : e.task = "CISA_KEV" /\ e.pc = "update_status" /\ e.kev_cves = {1}
  /\ BagToSet(cves) =
       {[id |-> 1, severity |-> "CRITICAL", baseScore |-> "9.8", isKev |-> TRUE],
        [id |-> 2, severity |-> NULL, baseScore |-> NULL, isKev |-> FALSE]}

(***************************************************************************)
(* C9: a CVE upsert never changes the known-exploited flag of a record     *)
(* that already exists, through the NVD task or through upsert_cve.        *)
(***************************************************************************)
C9_UpsertKeepsFlag ==
  [][/\ \A e \in Execs, items \in NvdBatches :
          NvdIngest(e, items) => Flagged(cves') = Flagged(cves)
     /\ \A cve \in RawCves, kev_ids \in SUBSET CveIds :
          DbUpsertCve(cve, kev_ids) =>
            \A r \in BagToSet(Cve) :
              \E r2 \in BagToSet(Cve') : r2.id = r.id /\ r2.isKev = r.isKev]_vars

Running == {"start", "except", "update_status"}

C11_OneRunPerSource ==
  \A k \in TaskKinds : Count(runs, {e \in Execs : e.task = k /\ e.pc \in Running}) <= 1

(***************************************************************************)
(* C12: a failure of one source's run never affects another source: every  *)
(* step of an execution of source a leaves the data_sources rows and the   *)
(* executions of every other source as they were, and a step of a failing  *)
(* execution leaves the tables and the broker as they were, so that the    *)
(* other source's run completes, stores its records and records its own    *)
(* outcome next to the failing one.                                        *)
(***************************************************************************)
RowsOf(ds, k) == {r \in ds : r.kind = k}

RunsOf(rs, k) == [e \in {x \in BagToSet(rs) : x.task = k} |-> rs[e]]

(* the step is taken by execution e *)
StepOf(e) == Count(runs', {e}) < Count(runs, {e})

(* the step of e raises, records the error, retries or gives up *)
Failing(e) ==
  \/ e.pc \in {"except", "raised"}
  \/ \E f \in BagToSet(runs') : f.pc = "except" /\ Replace(e, f)

C12_SourcesIsolated ==
  [][\A e \in Execs :
       StepOf(e) =>
         /\ \A b \in valid_kinds \ {e.task} :
              /\ RowsOf(data_sources', b) = RowsOf(data_sources, b)
              /\ RunsOf(runs', b) = RunsOf(runs, b)
         /\ Failing(e) => tables' = tables /\ queue' = queue]_vars

C12_Witness ==
  \E a \in Execs, g \in Execs :
    /\ a.task = "RSS" /\ a.pc = "raised" /\ a.retries = max_retries
    /\ g.task = "GHSA" /\ g.pc = "returned" /\ g.n = 1
    /\ \E r \in BagToSet(advisories) : r.sourceUrl = "G1"
    /\ \A r \in RowsOf(data_sources, "GHSA") :
         r.lastStatus = Status("SUCCESS", 1, "processed")

(***************************************************************************)
(* C13: in an OSV run the queries per ecosystem are independent: whatever  *)
(* query fails, every ecosystem is queried, and every vulnerability that   *)
(* an answered query returned is stored.                                   *)
(***************************************************************************)
C13_EcosystemsIndependent ==
  [][\A e \in Execs, responses \in OsvResponses :
       OsvPull(e, responses) =>
         /\ \E f \in BagToSet(runs') : Replace(e, f) /\ f.reqs = NEco
         /\ \A i \in 1..NEco :
              responses[i].ok =>
                \A j \in 1..Min(OsvCap, Len(responses[i].vulns)) :
                  responses[i].vulns[j].id # NoId
                    => responses[i].vulns[j].id \in Stored(osv_vulns')]_vars

(***************************************************************************)
(* C14: without a GHSA access token a GHSA run makes no upstream request,  *)
(* writes no record, records a status that marks it as skipped, ends       *)
(* without raising and is not retried.                                     *)
(***************************************************************************)
C14_GhsaSkipped ==
  ~env.GITHUB_TOKEN =>
    /\ advisories = EmptyBag
    /\ \A e \in Execs :
         e.task = "GHSA" =>
           /\ e.reqs = 0 /\ e.retries = 0
           /\ e.pc \in {"start", "returned"}
           /\ e.pc = "returned" =>
                \A r \in RowsOf(data_sources, "GHSA") :
                  r.lastStatus.outcome = "SKIPPED" /\ r.lastStatus.n = 0

C14_Witness ==
  /\ ~env.GITHUB_TOKEN
  /\ runs = EmptyBag
  /\ advisories = EmptyBag
  /\ \A r \in RowsOf(data_sources, "GHSA") :
       /\ r.lastStatus = Status("SKIPPED", 0, "No GitHub token configured")
       /\ r.lastRunAt = now

(***************************************************************************)
(* C15: when the summarization backend is unavailable or fails (no         *)
(* credential, no answer), the run neither aborts nor fails: it commits,   *)
(* it has gone on through every advisory, and the advisory whose summaries *)
(* could not be produced is stored with empty summary fields.              *)
(***************************************************************************)
Unsummarized(content, ai) == get_claude_summaries(content, ai) = NoSummaries

(* the advisory is stored as written by its upsert, without summaries *)
StoredBare(t, title, source, sourceUrl) ==
  \E r \in BagToSet(t) :
    /\ r.title = title /\ r.sourceUrl = sourceUrl
    /\ r.summary = EMPTY /\ r.summaryTech = EMPTY
    /\ sourceUrl = NULL => r.source = source

(* the entries of the feeds that are read, by place in the order of reading *)
RssPlaces(feeds) ==
  {p \in (1..Len(rss_sources)) \X (1..MaxEntries) :
     /\ rss_sources[p[1]].url # EMPTY
     /\ feeds[rss_sources[p[1]].id].ok
     /\ p[2] <= Min(RssCap, Len(feeds[rss_sources[p[1]].id].entries))}

RssEntryAt(feeds, p) == feeds[rss_sources[p[1]].id].entries[p[2]]

Shown(ds, k) == {s \in get_admin_status(ds) : s.kind = k}

(* execution e ends its attempt in this step, as f *)
Completes(e, f) ==
  /\ e.pc \in Running /\ f.pc \in {"returned", "raised"}
  /\ f.task = e.task /\ f.retries = e.retries
  /\ Replace(e, f)

UpsertedBefore(items) ==
  {i \in 1..Len(items) :
     items[i].id # NoId /\ \A j \in 1..i : ~CvssRaises(items[j]) \/ items[j].id = NoId}

C17_CommittedOneByOne ==
  [][\A e \in Execs :
       /\ (e.task = "NVD" /\ e.pc = "start") =>
            \A items \in NvdBatches :
              NvdIngest(e, items) =>
                \A i \in UpsertedBefore(items) : items[i].id \in Stored(cves')
       /\ (e.task = "OSV" /\ e.pc = "start") =>
            \A responses \in OsvResponses :
              OsvPull(e, responses) =>
                \A i \in 1..OsvQueries(responses) :
                  responses[i].ok =>
                    \A j \in 1..Min(OsvCap, Len(responses[i].vulns)) :
                      responses[i].vulns[j].id # NoId
                        => responses[i].vulns[j].id \in Stored(osv_vulns')]_vars

(***************************************************************************)
(* C18: the fetch window of a source starts at the time of its last        *)
(* successful run: a run that ends in failure does not move the start of   *)
(* the window that the next run will use.                                  *)
(***************************************************************************)
(* the start of the NVD window, were it computed in this state *)
WindowStart(ds) ==
  LET rows == {r \in ds : r.kind = "NVD" /\ r.enabled}
  IN IF rows = {} THEN Never
     ELSE (CHOOSE r \in rows : TRUE).lastRunAt

C18_FailureKeepsWindow ==
  [][\A e \in Execs :
       (e.task = "NVD" /\ RecordError(e)) =>
         WindowStart(data_sources') = WindowStart(data_sources)]_vars

(***************************************************************************)
(* C19: an NVD fetch goes through the pages until the offset reaches the   *)
(* total the answer reports: a run that commits has fetched and upserted   *)
(* every item up to that total.                                            *)
(***************************************************************************)
C19_AllPagesFetched ==
  [][\A e \in Execs :
       (e.task = "NVD" /\ e.pc = "start") =>
         \A items \in WindowBatches :
           \A totalResults \in NvdTotals(items) :
             (NvdAnswer(e, items, totalResults) /\ Committed(e)) =>
               /\ Stored(cves') = 1..totalResults
               /\ \E f \in BagToSet(runs') : Replace(e, f) /\ f.n = totalResults]_vars

(***************************************************************************)
(* C20: a manual trigger that is rejected, for an active cool-down (429)   *)
(* or an invalid kind (400), publishes no task, starts no run, and leaves  *)
(* every cool-down key with its remaining time to live.                    *)
(***************************************************************************)
C20_RejectedTriggerFrame ==
  [][\A source_kind \in SourceKinds :
       (trigger_source_run(source_kind) /\ response'.code \in {400, 429}) =>
         /\ queue' = queue
         /\ runs' = runs
         /\ redis' = redis]_vars

(* a trigger of MSRC rejected when a third of its cool-down is left *)
C20_Witness ==
  /\ response = [kind |-> "MSRC", code |-> 429]
  /\ redis["MSRC"] = CoolDown - 2 * TickSeconds
  /\ queue = EmptyBag

(***************************************************************************)
(* C21: every upstream request of a source run goes through the transport  *)
(* policy: a run ends as failed on a request failure only after the        *)
(* request was repeated retries + 1 times, so that a single transient      *)
(* failure does not fail the run.                                          *)
(***************************************************************************)
C21_RequestsUseTransport ==
  \A e \in Execs :
    ( /\ e.task \in {"NVD", "CISA_KEV"}
      /\ e.pc \in {"except", "raised"} /\ e.err = "HTTPError" )
      => e.reqs = default_retries + 1

(***************************************************************************)
(* C22: one transport call makes at most retries + 1 requests, stops at    *)
(* the first request that succeeds, sleeps once between two consecutive    *)
(* requests, and does not sleep after a success or after the last failed   *)
(* request.  http.i counts the sleeps, http.log the requests.              *)
(***************************************************************************)
C22_TransportBound ==
  /\ Len(http.log) <= http.retries + 1
  /\ \A j \in 1..(Len(http.log) - 1) : http.log[j] \in Failures
  /\ http.pc = "request" => Len(http.log) = http.i
  /\ http.pc = "sleep" =>
       /\ Len(http.log) = http.i + 1
       /\ http.i < http.retries
       /\ http.log[Len(http.log)] \in Failures
  /\ http.pc \in {"returned", "raised"} => Len(http.log) = http.i + 1

(* the default call failed four times: four requests, three sleeps *)
C22_Witness ==
  /\ http.pc = "raised" /\ http.retries = default_retries
  /\ Len(http.log) = default_retries + 1
  /\ http.i = default_retries

(***************************************************************************)
(* C23: for every valid kind an accepted manual trigger starts a run of    *)
(* that source: when the message the trigger published leaves the broker,  *)
(* an execution of the task of that kind begins.                           *)
(***************************************************************************)
C23_AcceptedTriggerRuns ==
  [][\A k \in valid_kinds :
       Count(queue', {task_map[k]}) < Count(queue, {task_map[k]})
         => Count(runs', {NewExec(k, 0)}) > Count(runs, {NewExec(k, 0)})]_vars

(***************************************************************************)
(* C24: of two manual triggers of one source that arrive together while no *)
(* cool-down is active, at most one is accepted: a trigger is accepted and *)
(* its run dispatched only at a moment when the cool-down key of its       *)
(* source is not set.                                                      *)
(***************************************************************************)
C24_OneTriggerAdmitted ==
  [][\A k \in valid_kinds :
       ( /\ response' = [kind |-> k, code |-> 200]
         /\ Count(queue', {task_map[k]}) > Count(queue, {task_map[k]}) )
         => ~exists(redis, k)]_vars

(***************************************************************************)
(* C25: a run that keeps failing is retried at most max_retries times and  *)
(* then stops: no execution is ever beyond its third retry, a failed       *)
(* execution below the bound is followed by the next attempt, and the      *)
(* failed third retry ends the run with the error status of its source     *)
(* recorded (in every row of the source that existed when it failed; a row *)
(* added since has never run).                                             *)
(***************************************************************************)
C25_BoundedRetries ==
  [][/\ \A f \in BagToSet(runs') : f.retries <= max_retries
     /\ \A e \in Execs :
          (StepOf(e) /\ e.pc = "raised") =>
            IF e.retries < max_retries
            THEN Replace(e, NewExec(e.task, e.retries + 1))
            ELSE /\ runs' = runs (-) SetToBag({e})
                 /\ \A r \in RowsOf(data_sources', e.task) :
                      \/ r.lastStatus = Status("ERROR", 0, e.err)
                      \/ r.lastRunAt = Never]_vars

(* the NVD run has given up: no execution is left and the row shows the error *)
C25_Witness ==
  /\ runs = EmptyBag
  /\ "NVD" \in deployed
  /\ \A r \in RowsOf(data_sources, "NVD") : r.lastStatus = Status("ERROR", 0, "HTTPError")

(***************************************************************************)
(* C26: neither the periodic timer nor a manual trigger starts a run of a  *)
(* source while the cool-down of that source is active: the task of a      *)
(* source is published, by beat or by the endpoint, only when the          *)
(* cool-down key of the source is not set.                                 *)
(***************************************************************************)
C26_NoStartInCoolDown ==
  [][\A k \in beat_schedule :
       Count(queue', {task_map[k]}) > Count(queue, {task_map[k]})
         => ~exists(redis, k)]_vars

(***************************************************************************)
(* C27: the periodic schedule staggers the sources: no two of the five     *)
(* sources are due at the same instant, so beat never publishes more than  *)
(* one task at a time.                                                     *)
(***************************************************************************)
C27_Staggered ==
  [][clock' # clock =>
       /\ \A a \in beat_schedule, b \in beat_schedule :
            (Due(a, clock') /\ Due(b, clock')) => a = b
       /\ BagCardinality(queue') <= BagCardinality(queue) + 1]_vars

(***************************************************************************)
(* C28: the two summary halves are independent: when exactly one of the    *)
(* two generation calls fails, storing what summarize returns sets the     *)
(* half that succeeded and leaves the stored summary of the failed half as *)
(* it was.                                                                 *)
(***************************************************************************)
C28_HalvesIndependent ==
  [][\A entry \in DbEntries, exec_sum \in {NULL, "E1", "E2"}, tech_sum \in {NULL, "K1"} :
       ( /\ (exec_sum = NULL) # (tech_sum = NULL)
         /\ DbUpsertAdvisory("RSS", entry, summarize("c", exec_sum, tech_sum)) ) =>
         LET guid == Or(entry.id, Or(entry.link, entry.title))
         IN \A old \in {r \in BagToSet(Advisory) : r.id = guid} :
              \E new \in {r \in BagToSet(Advisory') : r.id = guid} :
                /\ new.summary = IF exec_sum = NULL THEN old.summary ELSE exec_sum
                /\ new.summaryTech = IF tech_sum = NULL THEN old.summaryTech
                                     ELSE tech_sum]_vars

(***************************************************************************)
(* C29: the two-phase KEV flag update is atomic.  The committed table, the *)
(* one a reader or a concurrent run sees, changes its flags only at the    *)
(* commit of a KEV sync, and then every row the sync wrote is flagged if   *)
(* and only if it is in the snapshot: the state with the flags cleared and *)
(* not yet set is never in the table.  A sync that fails after the clear   *)
(* leaves the table as it was.                                             *)
(***************************************************************************)
C29_KevUpdateAtomic ==
  [][/\ Flagged(cves') # Flagged(cves) =>
          \E e \in Execs :
            /\ e.task = "CISA_KEV" /\ e.pc = "commit" /\ StepOf(e)
            /\ \A id \in DOMAIN e.tx :
                 id \in Flagged(cves') <=> id \in e.kev_cves
            /\ Flagged(cves') \ DOMAIN e.tx = Flagged(cves) \ DOMAIN e.tx
     /\ \A e \in Execs :
          ( /\ e.task = "CISA_KEV" /\ e.pc \in {"mark", "commit"} /\ StepOf(e)
            /\ \E f \in BagToSet(runs') : f.pc = "except" /\ Replace(e, f) )
            => cves' = cves]_vars

(* the sync has cleared the two flagged rows inside its transaction, and   *)
(* the table still shows them flagged                                      *)
C29_Witness ==
  \E e \in Execs :
    /\ e.task = "CISA_KEV" /\ e.pc = "mark"
    /\ Flagged(cves) = 1..MaxTxId
    /\ DOMAIN e.tx = 1..MaxTxId /\ \A id \in DOMAIN e.tx : ~e.tx[id]

(***************************************************************************)
(* C30: under any interleaving of CVE ingestion and completed KEV syncs,   *)
(* while no KEV sync is in progress the flagged records stay the stored    *)
(* records whose identifier is in the snapshot committed last: a step      *)
(* taken with no sync in progress, from a state where the two sets are     *)
(* equal, leads to a state where they are equal; so a CVE first inserted   *)
(* after a sync is flagged if and only if it is in that sync's snapshot.   *)
(***************************************************************************)
KevInProgress == \E e \in Execs : e.task = "CISA_KEV"

FlagsFollowSnapshot == Flagged(cves) = ingested.kev \cap Stored(cves)

C30_FlagsFollowSnapshot ==
  [][(~KevInProgress /\ ~KevInProgress' /\ FlagsFollowSnapshot)
       => FlagsFollowSnapshot']_vars

(***************************************************************************)
(* C31: the fetch windows of consecutive successful NVD runs leave no gap. *)
(* The next run starts its window at the "lastRunAt" it reads, so when a   *)
(* successful run records its outcome, the window start it leaves for the  *)
(* next run is not later than the end of its own window.                   *)
(***************************************************************************)
C31_WindowsLeaveNoGap ==
  [][\A e \in Execs :
       (e.task = "NVD" /\ e.pc = "update_status" /\ RecordSuccess(e)) =>
         WindowStart(data_sources') <= e.end_date]_vars

(***************************************************************************)
(* C32: the cool-down is per source.  A manual trigger of a valid source   *)
(* is accepted exactly when that source's own key is absent, whatever the  *)
(* keys of the other sources are; an accepted trigger sets the key of its  *)
(* source, and no trigger changes the key of another source.               *)
(***************************************************************************)
C32_CoolDownPerSource ==
  [][\A source_kind \in SourceKinds \cap valid_kinds :
       trigger_source_run(source_kind) =>
         /\ response'.code = IF redis[source_kind] > 0 THEN 429 ELSE 200
         /\ response'.code = 200 => redis'[source_kind] = CoolDown
         /\ \A k \in valid_kinds \ {source_kind} : redis'[k] = redis[k]]_vars

(* MSRC accepted while the cool-down of NVD, accepted earlier, is running *)
C32_Witness ==
  /\ response = [kind |-> "MSRC", code |-> 200]
  /\ redis["MSRC"] = CoolDown
  /\ redis["NVD"] > 0 /\ redis["NVD"] < CoolDown

=============================================================================
